---- MODULE Spec2Model ----
(***************************************************************************)
(* Colour resolution of color-wizard (src/bot.py): the hex parser, the     *)
(* named-colour lookup, the vague-description parser with its HSL -> RGB   *)
(* conversion in IEEE-754 double arithmetic, the resolution pipeline, the  *)
(* role name, and the /pick handler run by several invocations at once.    *)
(*                                                                         *)
(* Strings are sequences of one-character strings.  None is modelled by    *)
(* the value None below.  A Python float is a record [s, m, e] standing    *)
(* for s * m * 2^e with m a 53-bit natural number kept as a little-endian  *)
(* sequence of 15-bit limbs (TLC integers are 32 bits wide); every         *)
(* operation rounds to nearest, ties to even, as the hardware does.        *)
(***************************************************************************)
EXTENDS Integers, Sequences, FiniteSets, TLC

None == -1

(***************************************************************************)
(* Natural numbers of arbitrary size: little-endian limbs in base 2^15,    *)
(* no leading zero limb, <<>> is zero.                                     *)
(***************************************************************************)
BASE == 32768
LIMBBITS == 15
P2 == <<1, 2, 4, 8, 16, 32, 64, 128, 256, 512, 1024, 2048, 4096, 8192, 16384, 32768>>
Pow2(k) == P2[k + 1]

Limb(a, i) == IF i <= Len(a) THEN a[i] ELSE 0

RECURSIVE BStrip(_)
BStrip(a) ==
    IF a = <<>> THEN a
    ELSE IF a[Len(a)] = 0 THEN BStrip(SubSeq(a, 1, Len(a) - 1)) ELSE a

BFromInt(n) ==
    IF n = 0 THEN <<>>
    ELSE IF n < BASE THEN <<n>>
    ELSE IF n < BASE * BASE THEN <<n % BASE, n \div BASE>>
    ELSE <<n % BASE, (n \div BASE) % BASE, n \div (BASE * BASE)>>

BToInt(a) == Limb(a, 1) + BASE * Limb(a, 2)

RECURSIVE BAddFrom(_, _, _, _)
BAddFrom(a, b, i, c) ==
    IF i > Len(a) /\ i > Len(b)
    THEN IF c = 0 THEN <<>> ELSE <<c>>
    ELSE LET t == Limb(a, i) + Limb(b, i) + c
         IN  <<t % BASE>> \o BAddFrom(a, b, i + 1, t \div BASE)
BAdd(a, b) == BAddFrom(a, b, 1, 0)

RECURSIVE BSubFrom(_, _, _, _)
BSubFrom(a, b, i, c) ==
    IF i > Len(a) THEN <<>>
    ELSE LET t == Limb(a, i) - Limb(b, i) - c
         IN  IF t < 0 THEN <<t + BASE>> \o BSubFrom(a, b, i + 1, 1)
             ELSE <<t>> \o BSubFrom(a, b, i + 1, 0)
BSub(a, b) == BStrip(BSubFrom(a, b, 1, 0))

RECURSIVE BMulSmallFrom(_, _, _, _)
BMulSmallFrom(a, d, i, c) ==
    IF i > Len(a)
    THEN IF c = 0 THEN <<>> ELSE <<c>>
    ELSE LET t == a[i] * d + c
         IN  <<t % BASE>> \o BMulSmallFrom(a, d, i + 1, t \div BASE)
BMulSmall(a, d) == IF d = 0 THEN <<>> ELSE BMulSmallFrom(a, d, 1, 0)

Zeros(n) == [i \in 1..n |-> 0]

RECURSIVE BMulFrom(_, _, _)
BMulFrom(a, b, i) ==
    IF i > Len(b) THEN <<>>
    ELSE BAdd(IF b[i] = 0 THEN <<>> ELSE Zeros(i - 1) \o BMulSmall(a, b[i]),
              BMulFrom(a, b, i + 1))
BMul(a, b) == IF a = <<>> \/ b = <<>> THEN <<>> ELSE BMulFrom(a, b, 1)

RECURSIVE BCmpFrom(_, _, _)
BCmpFrom(a, b, i) ==
    IF i = 0 THEN 0
    ELSE IF a[i] < b[i] THEN -1
    ELSE IF a[i] > b[i] THEN 1
    ELSE BCmpFrom(a, b, i - 1)
BCmp(a, b) ==
    IF Len(a) < Len(b) THEN -1
    ELSE IF Len(a) > Len(b) THEN 1
    ELSE BCmpFrom(a, b, Len(a))

\* quotient and remainder of a by the small number d (0 < d <= 2^15)
RECURSIVE BDivSmallFrom(_, _, _, _)
BDivSmallFrom(a, d, i, r) ==
    IF i = 0 THEN [q |-> <<>>, r |-> r]
    ELSE LET t == r * BASE + a[i]
             rest == BDivSmallFrom(a, d, i - 1, t % d)
         IN  [q |-> rest.q \o <<t \div d>>, r |-> rest.r]
StripQuotient(qr) == [q |-> BStrip(qr.q), r |-> qr.r]
BDivSmall(a, d) == StripQuotient(BDivSmallFrom(a, d, Len(a), 0))

RECURSIVE BitLenInt(_)
BitLenInt(x) == IF x = 0 THEN 0 ELSE 1 + BitLenInt(x \div 2)
BBitLen(a) == IF a = <<>> THEN 0 ELSE LIMBBITS * (Len(a) - 1) + BitLenInt(a[Len(a)])

BShl(a, k) ==
    IF a = <<>> THEN a
    ELSE Zeros(k \div LIMBBITS) \o BMulSmall(a, Pow2(k % LIMBBITS))

BShr(a, k) ==
    IF k \div LIMBBITS >= Len(a) THEN <<>>
    ELSE BDivSmall(SubSeq(a, (k \div LIMBBITS) + 1, Len(a)), Pow2(k % LIMBBITS)).q

\* a mod 2^k
BLow(a, k) ==
    IF k \div LIMBBITS >= Len(a) THEN a
    ELSE BStrip(SubSeq(a, 1, k \div LIMBBITS)
                \o <<a[(k \div LIMBBITS) + 1] % Pow2(k % LIMBBITS)>>)

BOdd(a) == Limb(a, 1) % 2 = 1

(***************************************************************************)
(* Python floats (IEEE-754 binary64, round to nearest even).  The values   *)
(* of this program stay far from the exponent limits, so there are no      *)
(* subnormals, infinities or NaNs to represent.                            *)
(***************************************************************************)
MANTBITS == 53
FZero == [s |-> 1, m |-> <<>>, e |-> 0]
FIsZero(x) == x.m = <<>>

\* the double s * q * 2^e for a q of 53 or, after a carry, 54 bits
FRenorm(s, q, e) ==
    IF BBitLen(q) > MANTBITS THEN [s |-> s, m |-> BShr(q, 1), e |-> e + 1]
    ELSE [s |-> s, m |-> q, e |-> e]

\* q is the kept part; cmp compares the dropped part with half a unit of q
FRoundUp(s, q, e, cmp, sticky) ==
    FRenorm(s, IF cmp > 0 \/ (cmp = 0 /\ (sticky \/ BOdd(q))) THEN BAdd(q, <<1>>) ELSE q, e)

\* n has len > 53 bits: drop the low sh = len - 53 of them
FRoundCut(s, n, e, sticky, sh) ==
    FRoundUp(s, BShr(n, sh), e + sh, BCmp(BLow(n, sh), BShl(<<1>>, sh - 1)), sticky)

FRoundLen(s, n, e, sticky, len) ==
    IF len <= MANTBITS
    THEN [s |-> s, m |-> BShl(n, MANTBITS - len), e |-> e - (MANTBITS - len)]
    ELSE FRoundCut(s, n, e, sticky, len - MANTBITS)

\* the double nearest to s * n * 2^e (plus a nonzero fraction below the last
\* bit of n when sticky), ties to even
FRound(s, n, e, sticky) ==
    IF n = <<>> THEN FZero ELSE FRoundLen(s, n, e, sticky, BBitLen(n))

FFromInt(n) == FRound(IF n < 0 THEN -1 ELSE 1, BFromInt(IF n < 0 THEN -n ELSE n), 0, FALSE)

FNeg(x) == IF FIsZero(x) THEN x ELSE [x EXCEPT !.s = -x.s]
FAbs(x) == [x EXCEPT !.s = 1]

FMul(x, y) == FRound(x.s * y.s, BMul(x.m, y.m), x.e + y.e, FALSE)

\* a and b are the two magnitudes in units of 2^e, cmp compares them
FAddAligned(x, y, e, a, b, cmp) ==
    FRound(IF x.s = y.s \/ cmp > 0 THEN x.s ELSE y.s,
           IF x.s = y.s THEN BAdd(a, b)
           ELSE IF cmp > 0 THEN BSub(a, b)
           ELSE IF cmp < 0 THEN BSub(b, a)
           ELSE <<>>,
           e, FALSE)

FAddAt(x, y, e) ==
    FAddAligned(x, y, e, BShl(x.m, x.e - e), BShl(y.m, y.e - e),
                BCmp(BShl(x.m, x.e - e), BShl(y.m, y.e - e)))

FAdd(x, y) ==
    IF FIsZero(x) THEN y
    ELSE IF FIsZero(y) THEN x
    ELSE FAddAt(x, y, IF x.e < y.e THEN x.e ELSE y.e)

FSub(x, y) == FAdd(x, FNeg(y))

\* x / d for an integer divisor 0 < d <= 2^15
DIVGUARD == 30
FRoundQuotient(x, qr) == FRound(x.s, qr.q, x.e - DIVGUARD, qr.r # 0)
FDivInt(x, d) ==
    IF FIsZero(x) THEN FZero
    ELSE FRoundQuotient(x, BDivSmall(BShl(x.m, DIVGUARD), d))

\* -1, 0 or 1 as x < y, x = y, x > y
FSign(x) == IF FIsZero(x) THEN 0 ELSE x.s
FCmp(x, y) == FSign(FSub(x, y))

\* x % 2 for x >= 0
FMod2(x) ==
    IF FIsZero(x) \/ x.e >= 1 THEN FZero
    ELSE FRound(1, BLow(x.m, 1 - x.e), x.e, FALSE)

\* int(x): truncation toward zero
FTrunc(x) ==
    IF FIsZero(x) THEN 0
    ELSE x.s * BToInt(IF x.e >= 0 THEN BShl(x.m, x.e) ELSE BShr(x.m, -x.e))

(***************************************************************************)
(* Strings: str.strip, str.lstrip("#"), str.lower, str.upper, str.split,   *)
(* int(s, 16) and the format spec 06X.                                     *)
(***************************************************************************)
Whitespace == {" ", "\t"}
LowerLetters == <<"a", "b", "c", "d", "e", "f", "g", "h", "i", "j", "k", "l", "m",
                  "n", "o", "p", "q", "r", "s", "t", "u", "v", "w", "x", "y", "z">>
UpperLetters == <<"A", "B", "C", "D", "E", "F", "G", "H", "I", "J", "K", "L", "M",
                  "N", "O", "P", "Q", "R", "S", "T", "U", "V", "W", "X", "Y", "Z">>
HexDigits == <<"0", "1", "2", "3", "4", "5", "6", "7", "8", "9",
               "A", "B", "C", "D", "E", "F">>

IndexIn(c, t) == IF \E i \in 1..Len(t) : t[i] = c
                 THEN CHOOSE i \in 1..Len(t) : t[i] = c
                 ELSE 0

LowerChar(c) == LET i == IndexIn(c, UpperLetters) IN IF i = 0 THEN c ELSE LowerLetters[i]
UpperChar(c) == LET i == IndexIn(c, LowerLetters) IN IF i = 0 THEN c ELSE UpperLetters[i]
lower(s) == [i \in 1..Len(s) |-> LowerChar(s[i])]
upper(s) == [i \in 1..Len(s) |-> UpperChar(s[i])]

RECURSIVE lstripSet(_, _)
lstripSet(s, chars) ==
    IF s # <<>> /\ Head(s) \in chars THEN lstripSet(Tail(s), chars) ELSE s
RECURSIVE rstripSet(_, _)
rstripSet(s, chars) ==
    IF s # <<>> /\ s[Len(s)] \in chars
    THEN rstripSet(SubSeq(s, 1, Len(s) - 1), chars) ELSE s
strip(s) == rstripSet(lstripSet(s, Whitespace), Whitespace)
lstripHash(s) == lstripSet(s, {"#"})

\* str.split(): the maximal runs of non-whitespace characters
RECURSIVE splitFrom(_, _, _)
splitFrom(s, i, cur) ==
    IF i > Len(s) THEN IF cur = <<>> THEN <<>> ELSE <<cur>>
    ELSE IF s[i] \in Whitespace
    THEN IF cur = <<>> THEN splitFrom(s, i + 1, <<>>)
         ELSE <<cur>> \o splitFrom(s, i + 1, <<>>)
    ELSE splitFrom(s, i + 1, Append(cur, s[i]))
split(s) == splitFrom(s, 1, <<>>)

\* the value of a hexadecimal digit, either case; -1 for any other character
HexVal(c) == IndexIn(UpperChar(c), HexDigits) - 1
IsHexDigit(c) == HexVal(c) >= 0
\* ^[0-9A-Fa-f]{n}$ (after strip() no trailing newline is left for $ to skip)
MatchesHex(s, n) == Len(s) = n /\ \A i \in 1..n : IsHexDigit(s[i])

RECURSIVE int16(_)
int16(s) == IF s = <<>> THEN 0 ELSE 16 * int16(SubSeq(s, 1, Len(s) - 1)) + HexVal(s[Len(s)])

RECURSIVE HexOf(_)
HexOf(v) == IF v < 16 THEN <<HexDigits[v + 1]>> ELSE Append(HexOf(v \div 16), HexDigits[(v % 16) + 1])
RECURSIVE ZeroPad(_, _)
ZeroPad(s, width) == IF Len(s) >= width THEN s ELSE ZeroPad(<<"0">> \o s, width)
\* FormatHex without the zero padding
FormatHex_unpadded(v) == <<"#">> \o HexOf(v)

\* f"#{v:06X}"
FormatHex(v) == <<"#">> \o ZeroPad(HexOf(v), 6)

(***************************************************************************)
(* parse_hex_color                                                         *)
(***************************************************************************)
\* ExpandShort repeating the three digits instead of doubling each
ExpandShort_repeat(s) == s \o s

ExpandShort(s) == [i \in 1..(2 * Len(s)) |-> s[(i + 1) \div 2]]

HexOfBody(body) ==
    IF MatchesHex(body, 6) THEN int16(body)
    ELSE IF MatchesHex(body, 3) THEN int16(ExpandShort(body))
    ELSE None

parse_hex_color(color_input) == HexOfBody(lstripHash(strip(color_input)))

(***************************************************************************)
(* color_name_to_hex: webcolors.name_to_hex over the CSS3 names, here the   *)
(* names that the inputs of this model can spell.                          *)
(***************************************************************************)
CSS3_NAMES_TO_HEX ==
    (<<"r", "e", "d">> :> <<"#", "f", "f", "0", "0", "0", "0">>)
    @@ (<<"o", "r", "a", "n", "g", "e">> :> <<"#", "f", "f", "a", "5", "0", "0">>)
    @@ (<<"y", "e", "l", "l", "o", "w">> :> <<"#", "f", "f", "f", "f", "0", "0">>)
    @@ (<<"l", "i", "m", "e">> :> <<"#", "0", "0", "f", "f", "0", "0">>)
    @@ (<<"g", "r", "e", "e", "n">> :> <<"#", "0", "0", "8", "0", "0", "0">>)
    @@ (<<"t", "e", "a", "l">> :> <<"#", "0", "0", "8", "0", "8", "0">>)
    @@ (<<"c", "y", "a", "n">> :> <<"#", "0", "0", "f", "f", "f", "f">>)
    @@ (<<"b", "l", "u", "e">> :> <<"#", "0", "0", "0", "0", "f", "f">>)
    @@ (<<"i", "n", "d", "i", "g", "o">> :> <<"#", "4", "b", "0", "0", "8", "2">>)
    @@ (<<"p", "u", "r", "p", "l", "e">> :> <<"#", "8", "0", "0", "0", "8", "0">>)
    @@ (<<"v", "i", "o", "l", "e", "t">> :> <<"#", "e", "e", "8", "2", "e", "e">>)
    @@ (<<"m", "a", "g", "e", "n", "t", "a">> :> <<"#", "f", "f", "0", "0", "f", "f">>)
    @@ (<<"p", "i", "n", "k">> :> <<"#", "f", "f", "c", "0", "c", "b">>)
    @@ (<<"b", "r", "o", "w", "n">> :> <<"#", "a", "5", "2", "a", "2", "a">>)
    @@ (<<"g", "r", "a", "y">> :> <<"#", "8", "0", "8", "0", "8", "0">>)
    @@ (<<"g", "r", "e", "y">> :> <<"#", "8", "0", "8", "0", "8", "0">>)
    @@ (<<"w", "h", "i", "t", "e">> :> <<"#", "f", "f", "f", "f", "f", "f">>)
    @@ (<<"b", "l", "a", "c", "k">> :> <<"#", "0", "0", "0", "0", "0", "0">>)
    @@ (<<"c", "o", "r", "a", "l">> :> <<"#", "f", "f", "7", "f", "5", "0">>)

NameToHexInt(name) ==
    IF name \in DOMAIN CSS3_NAMES_TO_HEX
    THEN int16(lstripHash(CSS3_NAMES_TO_HEX[name]))
    ELSE None

color_name_to_hex(color_name) == NameToHexInt(strip(lower(color_name)))

(***************************************************************************)
(* The tables of the vague-description parser.  s_mult is in tenths: the   *)
(* literal 0.6 is the double nearest to 6/10, and a missing s_mult is the  *)
(* default 1.0.                                                            *)
(***************************************************************************)
BASE_COLORS ==
    (<<"r", "e", "d">> :> <<0, 100, 50>>)
    @@ (<<"o", "r", "a", "n", "g", "e">> :> <<30, 100, 50>>)
    @@ (<<"y", "e", "l", "l", "o", "w">> :> <<60, 100, 50>>)
    @@ (<<"l", "i", "m", "e">> :> <<90, 100, 50>>)
    @@ (<<"g", "r", "e", "e", "n">> :> <<120, 100, 40>>)
    @@ (<<"t", "e", "a", "l">> :> <<180, 100, 35>>)
    @@ (<<"c", "y", "a", "n">> :> <<180, 100, 50>>)
    @@ (<<"b", "l", "u", "e">> :> <<210, 100, 50>>)
    @@ (<<"i", "n", "d", "i", "g", "o">> :> <<240, 100, 40>>)
    @@ (<<"p", "u", "r", "p", "l", "e">> :> <<270, 100, 50>>)
    @@ (<<"v", "i", "o", "l", "e", "t">> :> <<270, 100, 60>>)
    @@ (<<"m", "a", "g", "e", "n", "t", "a">> :> <<300, 100, 50>>)
    @@ (<<"p", "i", "n", "k">> :> <<330, 100, 70>>)
    @@ (<<"b", "r", "o", "w", "n">> :> <<30, 60, 30>>)
    @@ (<<"g", "r", "a", "y">> :> <<0, 0, 50>>)
    @@ (<<"g", "r", "e", "y">> :> <<0, 0, 50>>)
    @@ (<<"w", "h", "i", "t", "e">> :> <<0, 0, 100>>)
    @@ (<<"b", "l", "a", "c", "k">> :> <<0, 0, 0>>)

MODIFIERS ==
    (<<"l", "i", "g", "h", "t">> :> [h_add |-> 0, s_mult |-> 10, l_add |-> 20])
    @@ (<<"p", "a", "l", "e">> :> [h_add |-> 0, s_mult |-> 6, l_add |-> 25])
    @@ (<<"p", "a", "s", "t", "e", "l">> :> [h_add |-> 0, s_mult |-> 5, l_add |-> 30])
    @@ (<<"d", "a", "r", "k">> :> [h_add |-> 0, s_mult |-> 10, l_add |-> -25])
    @@ (<<"d", "e", "e", "p">> :> [h_add |-> 0, s_mult |-> 11, l_add |-> -20])
    @@ (<<"b", "r", "i", "g", "h", "t">> :> [h_add |-> 0, s_mult |-> 12, l_add |-> 5])
    @@ (<<"v", "i", "v", "i", "d">> :> [h_add |-> 0, s_mult |-> 13, l_add |-> 0])
    @@ (<<"m", "u", "t", "e", "d">> :> [h_add |-> 0, s_mult |-> 5, l_add |-> 0])
    @@ (<<"d", "u", "l", "l">> :> [h_add |-> 0, s_mult |-> 4, l_add |-> 0])
    @@ (<<"s", "o", "f", "t">> :> [h_add |-> 0, s_mult |-> 6, l_add |-> 10])
    @@ (<<"n", "e", "o", "n">> :> [h_add |-> 0, s_mult |-> 14, l_add |-> 10])
    @@ (<<"e", "l", "e", "c", "t", "r", "i", "c">> :> [h_add |-> 0, s_mult |-> 13, l_add |-> 5])
    @@ (<<"d", "u", "s", "t", "y">> :> [h_add |-> 0, s_mult |-> 4, l_add |-> -5])
    @@ (<<"w", "a", "r", "m">> :> [h_add |-> 15, s_mult |-> 10, l_add |-> 0])
    @@ (<<"c", "o", "o", "l">> :> [h_add |-> -15, s_mult |-> 10, l_add |-> 0])

\* the float literal with the given number of tenths
Tenths(n) == FDivInt(FFromInt(n), 10)

(***************************************************************************)
(* hsl_to_rgb, called with an integer hue and lightness and a float        *)
(* saturation, as parse_vague_color calls it.                              *)
(***************************************************************************)
F0 == FFromInt(0)
F1 == FFromInt(1)
F100 == FFromInt(100)

\* max(0, min(100, v)) on floats
FMin100(v) == IF FCmp(v, F100) < 0 THEN v ELSE F100
FMax0(v) == IF FCmp(v, F0) > 0 THEN v ELSE F0
ClampF(v) == FMax0(FMin100(v))
\* ClampI that does not clamp
ClampI_none(v) == v

\* max(0, min(100, v)) on integers
ClampI(v) ==
    LET lo == IF v < 100 THEN v ELSE 100
    IN  IF lo > 0 THEN lo ELSE 0

\* Channel rounding to nearest instead of truncating
Channel_rounded(v, m) == FTrunc(FAdd(FMul(FAdd(v, m), FFromInt(255)), Tenths(5)))

\* int((v + m) * 255)
Channel(v, m) == FTrunc(FMul(FAdd(v, m), FFromInt(255)))

\* lines 100-104
HslOffset(rgb, m) == <<Channel(rgb[1], m), Channel(rgb[2], m), Channel(rgb[3], m)>>

\* lines 87-98
HslSector(h, c, x, m) ==
    HslOffset(IF h < 60 THEN <<c, x, F0>>
              ELSE IF h < 120 THEN <<x, c, F0>>
              ELSE IF h < 180 THEN <<F0, c, x>>
              ELSE IF h < 240 THEN <<F0, x, c>>
              ELSE IF h < 300 THEN <<x, F0, c>>
              ELSE <<c, F0, x>>,
              m)

\* lines 84-85: x = c * (1 - abs((h / 60) % 2 - 1)) and m = l - c / 2
HslChroma(h, l, c) ==
    HslSector(h, c,
              FMul(c, FSub(F1, FAbs(FSub(FMod2(FDivInt(FFromInt(h), 60)), F1)))),
              FSub(l, FDivInt(c, 2)))

\* line 83: c = (1 - abs(2 * l - 1)) * s
HslNormal(h, s, l) ==
    HslChroma(h, l, FMul(FSub(F1, FAbs(FSub(FMul(FFromInt(2), l), F1))), s))

\* lines 79-81
hsl_to_rgb(h, s, l) ==
    HslNormal(h % 360, FDivInt(ClampF(s), 100), FDivInt(FFromInt(ClampI(l)), 100))

(***************************************************************************)
(* parse_vague_color                                                       *)
(***************************************************************************)
\* index of the first word that is a base colour, 0 when there is none
RECURSIVE FirstBase(_, _)
FirstBase(words, i) ==
    IF i > Len(words) THEN 0
    ELSE IF words[i] \in DOMAIN BASE_COLORS THEN i
    ELSE FirstBase(words, i + 1)

\* ApplyModifier with the lightness clamped after every modifier
ApplyModifier_clamped(hsl, modifier) ==
    IF modifier \in DOMAIN MODIFIERS
    THEN [h |-> hsl.h + MODIFIERS[modifier].h_add,
          s |-> FMul(hsl.s, Tenths(MODIFIERS[modifier].s_mult)),
          l |-> ClampI(hsl.l + MODIFIERS[modifier].l_add)]
    ELSE hsl

\* one pass of the loop body at lines 134-138 on the running [h, s, l]
ApplyModifier(hsl, modifier) ==
    IF modifier \in DOMAIN MODIFIERS
    THEN LET adj == MODIFIERS[modifier]
         IN  [h |-> hsl.h + adj.h_add,
              s |-> FMul(hsl.s, Tenths(adj.s_mult)),
              l |-> hsl.l + adj.l_add]
    ELSE hsl

RECURSIVE ApplyAll(_, _)
ApplyAll(hsl, modifier_words) ==
    IF modifier_words = <<>> THEN hsl
    ELSE ApplyAll(ApplyModifier(hsl, Head(modifier_words)), Tail(modifier_words))

\* the running h, s, l after the loop at lines 132-138, before any clamping
ModifierWords(words, i) == SubSeq(words, 1, i - 1) \o SubSeq(words, i + 1, Len(words))
BaseHSL(base_hsl) == [h |-> base_hsl[1], s |-> FFromInt(base_hsl[2]), l |-> base_hsl[3]]
VagueHSLAt(words, i) == ApplyAll(BaseHSL(BASE_COLORS[words[i]]), ModifierWords(words, i))
VagueHSL(words) == VagueHSLAt(words, FirstBase(words, 1))

\* lines 140-146
VagueConvert(hsl) == hsl_to_rgb(hsl.h % 360, ClampF(hsl.s), ClampI(hsl.l))

\* VagueOfWords that takes the base colour from the last word only
VagueOfWords_last(words) ==
    IF words = <<>> \/ words[Len(words)] \notin DOMAIN BASE_COLORS THEN <<>>
    ELSE VagueConvert(VagueHSLAt(words, Len(words)))

VagueOfWords(words) ==
    IF words = <<>> \/ FirstBase(words, 1) = 0 THEN <<>>
    ELSE VagueConvert(VagueHSL(words))

\* lines 112-146: the triple hsl_to_rgb returns, <<>> on the two early returns
VagueChannels(color_input) == VagueOfWords(split(strip(lower(color_input))))

\* a | b on Python integers (two's complement of unbounded width)
RECURSIVE BitOr(_, _)
BitOr(a, b) ==
    IF a = 0 THEN b
    ELSE IF b = 0 THEN a
    ELSE IF a = -1 \/ b = -1 THEN -1
    ELSE (IF a % 2 = 1 \/ b % 2 = 1 THEN 1 ELSE 0) + 2 * BitOr(a \div 2, b \div 2)

\* line 147: (r << 16) | (g << 8) | b; None when there are no channels
PackRGB(rgb) ==
    IF rgb = <<>> THEN None
    ELSE BitOr(BitOr(rgb[1] * 65536, rgb[2] * 256), rgb[3])

parse_vague_color(color_input) == PackRGB(VagueChannels(color_input))

(***************************************************************************)
(* get_color_from_input and get_role_name                                  *)
(***************************************************************************)
NoColor == <<None, <<>>>>

WithHex(hex_color) == <<hex_color, FormatHex(hex_color)>>

FirstMatch(byHex, byName, byVague) ==
    IF byHex # None THEN WithHex(byHex)
    ELSE IF byName # None THEN WithHex(byName)
    ELSE IF byVague # None THEN WithHex(byVague)
    ELSE NoColor

\* get_color_from_input trying the vague parser before the colour names
get_color_from_input_vague_first(color_input) ==
    FirstMatch(parse_hex_color(color_input),
               parse_vague_color(color_input),
               color_name_to_hex(color_input))

get_color_from_input(color_input) ==
    FirstMatch(parse_hex_color(color_input),
               color_name_to_hex(color_input),
               parse_vague_color(color_input))

RolePrefix == <<"c", "o", "l", "o", "r", "-">>
\* get_role_name that keeps the case of the hex string
get_role_name_as_is(hex_string) == RolePrefix \o lstripHash(hex_string)

get_role_name(hex_string) == RolePrefix \o upper(lstripHash(hex_string))

(***************************************************************************)
(* The inputs.  A caller hands one string to one of the functions; a       *)
(* phrase that the vague parser matched can then be edited by one token    *)
(* and parsed again.                                                       *)
(***************************************************************************)
MaxTokens == 3
MaxHexLen == 7

UpTo(S, n) == UNION {[1..k -> S] : k \in 0..n}

RECURSIVE Join(_)
Join(words) ==
    IF words = <<>> THEN <<>>
    ELSE IF Len(words) = 1 THEN words[1]
    ELSE words[1] \o <<" ">> \o Join(Tail(words))

Vocabulary ==
    { <<"r", "e", "d">>, <<"w", "h", "i", "t", "e">>, <<"b", "l", "a", "c", "k">>,
      <<"d", "a", "r", "k">>, <<"p", "a", "s", "t", "e", "l">>, <<"n", "e", "o", "n">>,
      <<"c", "o", "o", "l">>, <<"v", "e", "r", "y">> }
EditTokens == { <<"v", "e", "r", "y">>, <<"b", "l", "u", "e">> }
HexAlphabet == {"0", "a", "F"}
HexPrefixes == { <<>>, <<"#">>, <<"#", "#">> }

PhraseInputs == {Join(ws) : ws \in UpTo(Vocabulary, MaxTokens)}
HexInputs == {p \o b : p \in HexPrefixes, b \in UpTo(HexAlphabet, MaxHexLen)}
Samples ==
    DOMAIN BASE_COLORS \cup {
    <<"c", "o", "r", "a", "l">>,
    <<"#", "f", "f", "5", "7", "3", "3">>,
    <<"F", "0", "8">>,
    <<"F", "F", "0", "0", "8", "8">>,
    <<"#", "F", "0", "8">>,
    <<" ", "#", "f", "f", "f", " ">>,
    <<"b", "a", "n", "a", "n", "a", "-", "r", "e", "p", "u", "b", "l", "i", "c">>,
    <<"D", "A", "R", "K", " ", "R", "E", "D">>,
    <<"d", "a", "r", "k", " ", "r", "e", "d">>,
    <<" ", " ", "D", "a", "r", "k", "\t", "R", "e", "d", " ">>,
    <<"R", "E", "D">>,
    <<" ", "r", "e", "d", " ">>,
    <<"1", "2", "3", "4", "5", "g">>,
    <<"g", "g", "g">>,
    <<"f", "f", "f", " ", "f", "f", "f">>,
    <<"#", " ", "f", "f", "f">>,
    <<"l", "i", "g", "h", "t", " ", "b", "l", "u", "e">>,
    <<"p", "a", "s", "t", "e", "l", " ", "p", "i", "n", "k">>,
    <<"n", "e", "o", "n", " ", "g", "r", "e", "e", "n">>,
    <<"b", "l", "u", "e", " ", "r", "e", "d">>,
    <<"#", "0", "0", "a", "0", "F", "0">> }
Inputs == PhraseInputs \cup HexInputs \cup Samples

VARIABLES input, op, color, hex_string, role_name, rgb, edit
VARIABLES guild_roles, member_roles, pc, arg, existing_role, to_remove

callVars == <<input, op, color, hex_string, role_name, rgb, edit>>
pickVars == <<guild_roles, member_roles, pc, arg, existing_role, to_remove>>
vars == <<callVars, pickVars>>

NoEdit == [kind |-> "none", tok |-> <<>>, pos |-> 0, base |-> 0, color |-> None]

NoCall ==
    /\ op = "input"
    /\ color = None
    /\ hex_string = <<>>
    /\ role_name = <<>>
    /\ rgb = <<>>
    /\ edit = NoEdit

NoPick ==
    /\ guild_roles = {}
    /\ member_roles = {}
    /\ pc = <<>>
    /\ arg = <<>>
    /\ existing_role = <<>>
    /\ to_remove = <<>>

Init ==
    /\ input \in Inputs
    /\ NoCall
    /\ NoPick

ParseHex ==
    /\ op = "input"
    /\ op' = "parse_hex_color"
    /\ color' = parse_hex_color(input)
    /\ UNCHANGED <<input, hex_string, role_name, rgb, edit>>
    /\ UNCHANGED pickVars

NameToHex ==
    /\ op = "input"
    /\ op' = "color_name_to_hex"
    /\ color' = color_name_to_hex(input)
    /\ UNCHANGED <<input, hex_string, role_name, rgb, edit>>
    /\ UNCHANGED pickVars

ParseVague ==
    /\ op = "input"
    /\ op' = "parse_vague_color"
    /\ rgb' = VagueChannels(input)
    /\ color' = PackRGB(rgb')
    /\ UNCHANGED <<input, hex_string, role_name, edit>>
    /\ UNCHANGED pickVars

Resolve ==
    /\ op = "input"
    /\ op' = "get_color_from_input"
    /\ LET res == get_color_from_input(input)
       IN  color' = res[1] /\ hex_string' = res[2]
    /\ UNCHANGED <<input, role_name, rgb, edit>>
    /\ UNCHANGED pickVars

\* the caller names the role for the hex string it got, in either case
RoleName ==
    /\ op = "get_color_from_input"
    /\ color # None
    /\ \E hs \in {hex_string, lower(hex_string)} :
          /\ hex_string' = hs
          /\ role_name' = get_role_name(hs)
    /\ op' = "get_role_name"
    /\ UNCHANGED <<input, color, rgb, edit>>
    /\ UNCHANGED pickVars

InsertAt(words, pos, tok) == SubSeq(words, 1, pos - 1) \o <<tok>> \o SubSeq(words, pos, Len(words))
DeleteAt(words, pos) == SubSeq(words, 1, pos - 1) \o SubSeq(words, pos + 1, Len(words))

\* a matched phrase gets one more token at any position and is parsed again
InsertToken ==
    /\ op = "parse_vague_color"
    /\ color # None
    /\ edit.kind = "none"
    /\ LET words == split(input)
       IN  /\ Len(words) < MaxTokens
           /\ \E pos \in 1..(Len(words) + 1), tok \in EditTokens :
                 /\ input' = Join(InsertAt(words, pos, tok))
                 /\ edit' = [kind |-> "insert", tok |-> tok, pos |-> pos,
                             base |-> FirstBase(split(lower(input')), 1), color |-> color]
    /\ rgb' = VagueChannels(input')
    /\ color' = PackRGB(rgb')
    /\ UNCHANGED <<op, hex_string, role_name>>
    /\ UNCHANGED pickVars

\* a matched phrase loses one token and is parsed again
DeleteToken ==
    /\ op = "parse_vague_color"
    /\ color # None
    /\ edit.kind = "none"
    /\ LET words == split(input)
       IN  \E pos \in 1..Len(words) :
              /\ input' = Join(DeleteAt(words, pos))
              /\ edit' = [kind |-> "delete", tok |-> words[pos], pos |-> pos,
                          base |-> FirstBase(split(lower(input)), 1), color |-> color]
    /\ rgb' = VagueChannels(input')
    /\ color' = PackRGB(rgb')
    /\ UNCHANGED <<op, hex_string, role_name>>
    /\ UNCHANGED pickVars

Next ==
    \/ ParseHex
    \/ NameToHex
    \/ ParseVague
    \/ Resolve
    \/ RoleName
    \/ InsertToken
    \/ DeleteToken

Spec == Init /\ [][Next]_vars

(***************************************************************************)
(* pick_color, lines 190-292: NumPicks invocations of /pick by one member  *)
(* of one guild, run by one event loop.  An invocation runs without        *)
(* interruption from one await to the next; each action below is the       *)
(* completion of one awaited call together with the code that follows it   *)
(* up to the next await.  guild.roles and member.roles are read as the     *)
(* roles the guild and the member have at that moment.                     *)
(***************************************************************************)
NumPicks == 2
Picks == 1..NumPicks
NoRole == [id |-> 0, name |-> <<>>]

PickInputs ==
    { <<"r", "e", "d">>, <<"#", "0", "0", "F">>, <<"l", "i", "m", "e">>, <<"g", "g", "g">> }

\* a guild with one role that is no colour role and one colour role
ModsRole == [id |-> 1, name |-> <<"M", "o", "d", "s">>]
LimeRole == [id |-> 2, name |-> <<"c", "o", "l", "o", "r", "-", "0", "0", "F", "F", "0", "0">>]

StartsWith(s, prefix) == Len(s) >= Len(prefix) /\ SubSeq(s, 1, Len(prefix)) = prefix

\* the role name of an invocation, line 229
PickRoleName(i) == get_role_name(get_color_from_input(arg[i])[2])

InitPick ==
    /\ input = <<>>
    /\ NoCall
    /\ guild_roles = {ModsRole, LimeRole}
    /\ member_roles \in {{}, {ModsRole}, {ModsRole, LimeRole}}
    /\ pc = [i \in Picks |-> "idle"]
    /\ arg = [i \in Picks |-> <<>>]
    /\ existing_role = [i \in Picks |-> NoRole]
    /\ to_remove = [i \in Picks |-> {}]

\* line 200: the command arrives and the handler awaits defer()
Defer(i) ==
    /\ pc[i] = "idle"
    /\ \E c \in PickInputs : arg' = [arg EXCEPT ![i] = c]
    /\ pc' = [pc EXCEPT ![i] = "defer"]
    /\ UNCHANGED <<guild_roles, member_roles, existing_role, to_remove>>
    /\ UNCHANGED callVars

\* lines 256-267 up to the next await, for the role `role` of invocation i:
\* the roles to remove are computed once; the membership test of line 266
\* is made when the handler gets there
ColorRolesToRemove(i) ==
    {r \in member_roles : StartsWith(r.name, RolePrefix) /\ r.name # PickRoleName(i)}

AfterRole(i, role) ==
    /\ existing_role' = [existing_role EXCEPT ![i] = role]
    /\ to_remove' = [to_remove EXCEPT ![i] = ColorRolesToRemove(i)]
    /\ pc' = [pc EXCEPT ![i] =
                IF ColorRolesToRemove(i) # {} THEN "remove_roles"
                ELSE IF role \notin member_roles THEN "add_roles"
                ELSE "send_applied"]

\* lines 202-234 after defer() returned
Lookup(i) ==
    /\ pc[i] = "defer"
    /\ IF get_color_from_input(arg[i])[1] = None
       THEN /\ pc' = [pc EXCEPT ![i] = "send_unrecognized"]
            /\ UNCHANGED <<existing_role, to_remove>>
       ELSE LET named == {r \in guild_roles : r.name = PickRoleName(i)}
            IN  IF named = {}
                THEN /\ pc' = [pc EXCEPT ![i] = "create_role"]
                     /\ UNCHANGED <<existing_role, to_remove>>
                ELSE \E role \in named : AfterRole(i, role)
    /\ UNCHANGED <<guild_roles, member_roles, arg>>
    /\ UNCHANGED callVars

\* lines 236-241: create_role() returned the new role
CreateRole(i) ==
    /\ pc[i] = "create_role"
    /\ LET role == [id |-> Cardinality(guild_roles) + 1, name |-> PickRoleName(i)]
       IN  /\ guild_roles' = guild_roles \cup {role}
           /\ AfterRole(i, role)
    /\ UNCHANGED <<member_roles, arg>>
    /\ UNCHANGED callVars

\* lines 242-254: create_role() raised Forbidden or HTTPException
CreateRoleFails(i) ==
    /\ pc[i] = "create_role"
    /\ pc' = [pc EXCEPT ![i] = "send_failed"]
    /\ UNCHANGED <<guild_roles, member_roles, arg, existing_role, to_remove>>
    /\ UNCHANGED callVars

\* lines 264-266: remove_roles() returned
RemoveRoles(i) ==
    /\ pc[i] = "remove_roles"
    /\ member_roles' = member_roles \ to_remove[i]
    /\ pc' = [pc EXCEPT ![i] =
                IF existing_role[i] \notin member_roles' THEN "add_roles"
                ELSE "send_applied"]
    /\ UNCHANGED <<guild_roles, arg, existing_role, to_remove>>
    /\ UNCHANGED callVars

\* line 267: add_roles() returned
AddRoles(i) ==
    /\ pc[i] = "add_roles"
    /\ member_roles' = member_roles \cup {existing_role[i]}
    /\ pc' = [pc EXCEPT ![i] = "send_applied"]
    /\ UNCHANGED <<guild_roles, arg, existing_role, to_remove>>
    /\ UNCHANGED callVars

\* lines 268-280: remove_roles() or add_roles() raised
AssignFails(i) ==
    /\ pc[i] \in {"remove_roles", "add_roles"}
    /\ pc' = [pc EXCEPT ![i] = "send_failed"]
    /\ UNCHANGED <<guild_roles, member_roles, arg, existing_role, to_remove>>
    /\ UNCHANGED callVars

\* lines 205, 243, 250, 269, 276, 292: followup.send() returned and the
\* handler is over
Send(i) ==
    /\ pc[i] \in {"send_unrecognized", "send_failed", "send_applied"}
    /\ pc' = [pc EXCEPT ![i] =
                IF pc[i] = "send_applied" THEN "applied"
                ELSE IF pc[i] = "send_failed" THEN "failed"
                ELSE "unrecognized"]
    /\ UNCHANGED <<guild_roles, member_roles, arg, existing_role, to_remove>>
    /\ UNCHANGED callVars

NextPick ==
    \E i \in Picks :
        \/ Defer(i)
        \/ Lookup(i)
        \/ CreateRole(i)
        \/ CreateRoleFails(i)
        \/ RemoveRoles(i)
        \/ AddRoles(i)
        \/ AssignFails(i)
        \/ Send(i)

SpecPick == InitPick /\ [][NextPick]_vars

(***************************************************************************)
(* The claims.                                                             *)
(***************************************************************************)
Resolved == op = "get_color_from_input"
Words == split(lower(input))
HasBase(words) == \E i \in 1..Len(words) : words[i] \in DOMAIN BASE_COLORS

LightnessModifiers == {m \in DOMAIN MODIFIERS : MODIFIERS[m].l_add # 0}
TwoLightnessModifiers ==
    /\ Resolved
    /\ Len(Words) = 3
    /\ Words[1] \in LightnessModifiers
    /\ Words[2] \in LightnessModifiers
    /\ Words[1] # Words[2]
    /\ Words[3] \in DOMAIN BASE_COLORS
Swapped == Join(<<Words[2], Words[1], Words[3]>>)

\* C1 as stated: a base colour with two different lightness modifiers
\* resolves to a different colour when the two modifiers change places.
C1_OrderMatters ==
    TwoLightnessModifiers => get_color_from_input(Swapped)[1] # color

\* C1 amended: a base colour with two different lightness modifiers resolves
\* to the same colour and hex string when the two modifiers change places;
\* "dark pastel red" and "pastel dark red" are the same colour.
C1_OrderIrrelevant ==
    TwoLightnessModifiers => get_color_from_input(Swapped) = <<color, hex_string>>

C1_Witness ==
    /\ TwoLightnessModifiers
    /\ input = <<"d", "a", "r", "k", " ", "p", "a", "s", "t", "e", "l", " ", "r", "e", "d">>
    /\ color = 12931666

BaseAlone == input \in DOMAIN BASE_COLORS
TableRGB(b) == PackRGB(hsl_to_rgb(BASE_COLORS[b][1], FFromInt(BASE_COLORS[b][2]), BASE_COLORS[b][3]))
NamedRGB(b) == int16(Tail(CSS3_NAMES_TO_HEX[b]))
WhereNameIsTable ==
    { <<"r", "e", "d">>, <<"y", "e", "l", "l", "o", "w">>, <<"c", "y", "a", "n">>,
      <<"m", "a", "g", "e", "n", "t", "a">>, <<"w", "h", "i", "t", "e">>,
      <<"b", "l", "a", "c", "k">> }

\* C2 as stated: a base colour name alone resolves to the packed hsl_to_rgb
\* of its table entry and the matching hex string.
C2_BaseAloneIsTable ==
    Resolved /\ BaseAlone =>
        /\ color = TableRGB(input)
        /\ hex_string = FormatHex(TableRGB(input))

\* C2 amended: a base colour name alone yields the packed hsl_to_rgb of its
\* table entry from parse_vague_color; get_color_from_input resolves it as a
\* colour name, which is the table's colour exactly for red, yellow, cyan,
\* magenta, white and black; "red" resolves to (0xFF0000, "#FF0000").
C2_BaseAloneIsNamed ==
    /\ op = "parse_vague_color" /\ BaseAlone =>
          color = TableRGB(input)
    /\ Resolved /\ BaseAlone =>
          /\ color = NamedRGB(input)
          /\ hex_string = <<"#">> \o upper(Tail(CSS3_NAMES_TO_HEX[input]))
          /\ (color = TableRGB(input)) <=> (input \in WhereNameIsTable)
    /\ Resolved /\ input = <<"r", "e", "d">> =>
          /\ color = 16711680
          /\ hex_string = <<"#", "F", "F", "0", "0", "0", "0">>

C2_Witness ==
    /\ Resolved
    /\ input = <<"r", "e", "d">>
    /\ color = 16711680
    /\ hex_string = <<"#", "F", "F", "0", "0", "0", "0">>

\* C3: get_color_from_input returns the hex parser's colour when it matches,
\* else the named colour when that matches, else the vague parser's, and
\* (None, "") exactly when none of the three matches.
C3_FirstMatchWins ==
    Resolved =>
        /\ parse_hex_color(input) # None => color = parse_hex_color(input)
        /\ parse_hex_color(input) = None /\ color_name_to_hex(input) # None =>
              color = color_name_to_hex(input)
        /\ parse_hex_color(input) = None /\ color_name_to_hex(input) = None =>
              color = parse_vague_color(input)
        /\ (color = None) <=> (/\ parse_hex_color(input) = None
                               /\ color_name_to_hex(input) = None
                               /\ parse_vague_color(input) = None)
        /\ (color = None) <=> (hex_string = <<>>)

C3_Witness ==
    /\ Resolved
    /\ input = <<"o", "r", "a", "n", "g", "e">>
    /\ color = 16753920
    /\ parse_vague_color(input) = 16744192

OneHashOff(s) == IF s # <<>> /\ Head(s) = "#" THEN Tail(s) ELSE s
AllHex(s) == \A i \in 1..Len(s) : s[i] \in {HexDigits[k] : k \in 1..16} \cup {"a", "b", "c", "d", "e", "f"}
SixValue(h) ==
    HexVal(h[1]) * 1048576 + HexVal(h[2]) * 65536 + HexVal(h[3]) * 4096
    + HexVal(h[4]) * 256 + HexVal(h[5]) * 16 + HexVal(h[6])

\* C4: six hexadecimal digits h of either case, given as h or as "#" and h,
\* resolve to the base-16 value of h and to "#" followed by h in upper case.
C4_SixDigits ==
    Resolved /\ Len(OneHashOff(input)) = 6 /\ AllHex(OneHashOff(input)) =>
        /\ color = SixValue(OneHashOff(input))
        /\ hex_string = <<"#">> \o upper(OneHashOff(input))

C4_Witness ==
    /\ Resolved
    /\ input = <<"#", "0", "0", "a", "0", "F", "0">>
    /\ color = 41200
    /\ hex_string = <<"#", "0", "0", "A", "0", "F", "0">>

Doubled(h) == <<h[1], h[1], h[2], h[2], h[3], h[3]>>
LongForm(s) == IF Head(s) = "#" THEN <<"#">> \o Doubled(Tail(s)) ELSE Doubled(s)

\* C5: three hexadecimal digits abc, with or without "#", resolve to the
\* same colour and hex string as aabbcc.
C5_ShortEqualsLong ==
    Resolved /\ Len(OneHashOff(input)) = 3 /\ AllHex(OneHashOff(input)) =>
        <<color, hex_string>> = get_color_from_input(LongForm(input))

C5_Witness ==
    /\ Resolved
    /\ input = <<"F", "0", "8">>
    /\ color = 16711816
    /\ hex_string = <<"#", "F", "F", "0", "0", "8", "8">>

\* C6: whatever the modifiers made of hue, saturation and lightness, each
\* channel parse_vague_color gets from hsl_to_rgb is in 0..255 and the packed
\* colour is in 0..0xFFFFFF with each channel in its own 8 bits.
C6_ChannelsInRange ==
    op = "parse_vague_color" /\ rgb # <<>> =>
        /\ \A i \in 1..3 : rgb[i] \in 0..255
        /\ color \in 0..16777215
        /\ color \div 65536 = rgb[1]
        /\ (color \div 256) % 256 = rgb[2]
        /\ color % 256 = rgb[3]

\* hue below 0 and saturation above 100 before the normalisation
C6_Witness ==
    /\ op = "parse_vague_color"
    /\ rgb # <<>>
    /\ VagueHSL(Words).h < 0
    /\ FCmp(VagueHSL(Words).s, F100) > 0
    /\ color = 16724581

\* the edited token is, in the phrase that holds it, neither the chosen
\* (first) base colour nor a modifier
IgnoredToken ==
    /\ edit.kind # "none"
    /\ edit.pos # edit.base
    /\ lower(edit.tok) \notin DOMAIN MODIFIERS

\* C7: parse_vague_color returns no match exactly when no token is a base
\* colour, and inserting or deleting a token that is neither the chosen
\* (first) base colour of the phrase holding it nor a modifier leaves the
\* colour of a matched phrase unchanged.
C7_Permissive ==
    op = "parse_vague_color" =>
        /\ (color = None) <=> ~HasBase(Words)
        /\ IgnoredToken => color = edit.color

C7_Witness ==
    /\ op = "parse_vague_color"
    /\ IgnoredToken
    /\ edit.kind = "insert"
    /\ edit.tok = <<"v", "e", "r", "y">>
    /\ input = <<"d", "a", "r", "k", " ", "v", "e", "r", "y", " ", "r", "e", "d">>
    /\ color = 8323072

\* C8 as stated: get_role_name returns the hex string without its "#" and in
\* upper case, and nothing else.
C8_StripUpperOnly ==
    op = "get_role_name" => role_name = upper(Tail(hex_string))

\* C8 amended: get_role_name returns "color-" followed by the hex string
\* without its "#" and in upper case: "#ff5733" gives "color-FF5733".
C8_ColorPrefixed ==
    op = "get_role_name" =>
        role_name = <<"c", "o", "l", "o", "r", "-">> \o upper(Tail(hex_string))

C8_Witness ==
    /\ op = "get_role_name"
    /\ hex_string = <<"#", "f", "f", "5", "7", "3", "3">>
    /\ role_name = <<"c", "o", "l", "o", "r", "-", "F", "F", "5", "7", "3", "3">>

\* C9: parse_hex_color matches only when the input, stripped of surrounding
\* whitespace and of at most one leading "#", is exactly 6 or exactly 3
\* hexadecimal digits; every other input yields no match.
C9_OneHashOnly ==
    op = "parse_hex_color" /\ color # None =>
        /\ Len(OneHashOff(strip(input))) \in {3, 6}
        /\ AllHex(OneHashOff(strip(input)))

ColorRoles == {r \in member_roles : StartsWith(r.name, <<"c", "o", "l", "o", "r", "-">>)}

\* C10: once every invocation of pick_color has completed successfully, the
\* member holds at most one colour role, and it is the role of one of the
\* invocations.
C10_OneColorRole ==
    (\A i \in Picks : pc[i] = "applied") =>
        /\ Cardinality(ColorRoles) <= 1
        /\ \A r \in ColorRoles : \E i \in Picks : r.name = PickRoleName(i)

====
